---- MODULE Spec2Model ----
(***************************************************************************)
(* QGIS-RRIM: RRIMAlgorithm.processAlgorithm (src/rrim_algorithm.py) as a  *)
(* state machine.  Every invocation ("run") is a process with its own      *)
(* program counter; runs share the file system.  The external primitives   *)
(* (rvt:rvt_opns, native:rastercalc, native:slope, os.remove) are blocking *)
(* calls whose return is a separate step with a nondeterministic outcome.  *)
(***************************************************************************)
EXTENDS Integers, Sequences, FiniteSets, TLC

\* ------------------------------------------------------------------
\* Bounds
\* ------------------------------------------------------------------
\* number of invocations of processAlgorithm in the model
NumRuns == 2
\* largest band count of an input raster
MaxBands == 2
\* largest value the openness primitive computes at the pixel followed
MaxPixel == 1
MaxCalls == 6

Runs == 1..NumRuns
\* values uuid.uuid4().hex can take; one per run is drawn
UIDs == 1..NumRuns

\* ------------------------------------------------------------------
\* Constants of the source
\* ------------------------------------------------------------------
\* parameter values of the two rvt:rvt_opns calls and of native:slope
OPNS_POSITIVE == 0
OPNS_NEGATIVE == 1
VE_FACTOR == 1
RADIUS == 10
NUM_DIRECTIONS == 16
NOISE_REMOVE == 0
Z_FACTOR == 1
SAVE_AS_8BIT == FALSE

\* A raster-calculator expression is a tree: a number, a reference
\* "name@band" to a band of a named layer, or an operator on two trees.
Num(v) == [op |-> "num", value |-> v]
Ref(name, band) == [op |-> "ref", name |-> name, band |-> band]
Minus(a, b) == [op |-> "-", left |-> a, right |-> b]
Over(a, b) == [op |-> "/", left |-> a, right |-> b]

\* the expression with minuend and subtrahend exchanged
EXPRESSION_Swapped == Over(Minus(Ref("NEG", 1), Ref("POS", 1)), Num(2))

\* '("POS@1" - "NEG@1") / 2'
EXPRESSION == Over(Minus(Ref("POS", 1), Ref("NEG", 1)), Num(2))

\* Pixel values are rationals <<numerator, denominator>>.
Rat(n) == <<n, 1>>
RatMinus(a, b) == <<a[1] * b[2] - b[1] * a[2], a[2] * b[2]>>
RatOver(a, b) == <<a[1] * b[2], a[2] * b[1]>>
RatEq(a, b) == a[1] * b[2] = b[1] * a[2]

\* values rvt:rvt_opns can compute at a pixel
PixelValues == 0..MaxPixel
OpnsTypes == {OPNS_POSITIVE, OPNS_NEGATIVE}

\* messages of the QgsProcessingException raised by the code
ErrInvalidInput == "Invalid input raster."
ErrBandCount == "Input raster must be a single-band surface."
ErrIntermediate == "Failed to load intermediate openness layers."
\* an exception raised inside processing.run, which the code does not catch
ErrPrimitive == "processing.run raised"

\* ------------------------------------------------------------------
\* Paths.  A path is <<folder, file stem, id>>.
\* ------------------------------------------------------------------
\* QgsProcessingUtils.tempFolder(): one folder for the whole process
temp_dir == "tempFolder"

\* the positive file named without the uid
op_path_NoUid(u) == <<temp_dir, "rrim_openness_positive", 0>>

\* os.path.join(temp_dir, f"rrim_openness_positive_{uid}.tif")
op_path(u) == <<temp_dir, "rrim_openness_positive", u>>

\* os.path.join(temp_dir, f"rrim_openness_negative_{uid}.tif")
on_path(u) == <<temp_dir, "rrim_openness_negative", u>>

\* the destinations the caller supplies for OUT_SLOPE and OUT_DIFF
slope_dest == <<"out", "slope", 0>>
diff_dest == <<"out", "diff", 0>>
Dests == {slope_dest, diff_dest}

TempPaths == {op_path(u) : u \in UIDs} \cup {on_path(u) : u \in UIDs}
Paths == TempPaths \cup Dests

\* ------------------------------------------------------------------
\* Inputs.  An input reference <<"in", stem, bands>> either resolves to a
\* raster layer with a band count or does not resolve at all.
\* ------------------------------------------------------------------
Inputs == {<<"in", "missing", 0>>} \cup {<<"in", "raster", b>> : b \in 1..MaxBands}

\* Python's None, and a present value, as a sequence of length 0 or 1
None == << >>
Some(x) == <<x>>

\* self.parameterAsRasterLayer(parameters, self.INPUT_RASTER, context)
parameterAsRasterLayer(ps) ==
    IF ps.INPUT_RASTER[2] = "missing" THEN None ELSE Some(ps.INPUT_RASTER)

\* raster_layer.bandCount()
bandCount(raster_layer) == raster_layer[1][3]

\* the gate written as "at least one band"
SingleBand_AtLeastOne(raster_layer) == bandCount(raster_layer) >= 1

\* line 125: the band-count gate
SingleBand(raster_layer) == bandCount(raster_layer) = 1

\* the parameters dictionary of one invocation
ParamSets == [INPUT_RASTER : Inputs, OUT_SLOPE : {slope_dest}, OUT_DIFF : {diff_dest}]

\* ------------------------------------------------------------------
\* State
\* ------------------------------------------------------------------
VARIABLES
    parameters,  \* run -> the parameters the caller passed
    pc,          \* run -> position in processAlgorithm
    uid,         \* run -> uuid drawn (runs that reached line 136)
    isCanceled,  \* run -> feedback.isCanceled()
    fs,          \* path -> [state: "absent", "valid" (loadable raster) or
                 \*          "invalid"; pixel: the value of band 1 at one pixel]
    openness,    \* OPNS_TYPE -> the value rvt:rvt_opns computes at that pixel
                 \*              of the input raster
    calls,       \* run -> sequence of processing.run invocations
    completed,   \* run -> number of those that returned or raised
    polls,       \* run -> sequence of stages before which isCanceled was read
    fsops,       \* run -> set of <<operation, path>> the run performed
    result,      \* run -> returned mapping (runs that returned)
    error,       \* run -> exception message (runs that raised)
    provider,    \* QGISRRIM.provider: None or the RRIMProvider instance
    registry,    \* the provider instances the processing registry holds
    entry_calls  \* the initGui / unload calls made so far, each with the
                 \* registry call it made

vars == <<parameters, pc, uid, isCanceled, fs, openness, calls, completed, polls,
          fsops, result, error, provider, registry, entry_calls>>

\* what processAlgorithm never writes
outside == <<openness, provider, registry, entry_calls>>

\* no file, and the content of a file
NoFile == [state |-> "absent", pixel |-> Rat(0)]
File(state, value) == [state |-> state, pixel |-> value]

Terminal == {"returned", "raised"}
Checkpoints == {"check1", "check2", "check3", "check4"}
InFlight == {"run1", "run2", "run3", "run4"}
PCs == {"idle", "rm_pos", "rm_neg"} \cup Checkpoints \cup InFlight \cup Terminal

\* the function f extended or overwritten at k
Put(f, k, v) == [x \in DOMAIN f \cup {k} |-> IF x = k THEN v ELSE f[x]]

Range(f) == {f[x] : x \in DOMAIN f}

\* the empty dictionary {}
EmptyResult == << >>

\* The runs are started with the parameters ps, on a terrain whose openness
\* at the pixel followed is o.
InitWith(ps, o) ==
    /\ parameters = ps
    /\ openness = o
    /\ pc = [r \in Runs |-> "idle"]
    /\ uid = << >>
    /\ isCanceled = [r \in Runs |-> FALSE]
    /\ fs = [p \in Paths |-> NoFile]
    /\ calls = [r \in Runs |-> << >>]
    /\ completed = [r \in Runs |-> 0]
    /\ polls = [r \in Runs |-> << >>]
    /\ fsops = [r \in Runs |-> {}]
    /\ result = << >>
    /\ error = << >>
    /\ provider = None
    /\ registry = {}
    /\ entry_calls = << >>

\* a flat terrain: positive and negative openness are equal everywhere
Flat == [t \in OpnsTypes |-> 0]

\* Every run is started on some input, with the caller's two destinations.
Init == \E ps \in [Runs -> ParamSets] : InitWith(ps, Flat)

\* ------------------------------------------------------------------
\* Ways of leaving processAlgorithm
\* ------------------------------------------------------------------
\* return value
Return(r, value) ==
    /\ pc' = [pc EXCEPT ![r] = "returned"]
    /\ result' = Put(result, r, value)
    /\ error' = error

\* raise QgsProcessingException(msg), or an exception passing through
Raise(r, msg) ==
    /\ pc' = [pc EXCEPT ![r] = "raised"]
    /\ error' = Put(error, r, msg)
    /\ result' = result

Goto(r, label) ==
    /\ pc' = [pc EXCEPT ![r] = label]
    /\ UNCHANGED <<result, error>>

\* processing.run(alg, params, ...) entered: the call is in flight
Invoke(r, alg, params, label) ==
    /\ calls' = [calls EXCEPT ![r] = Append(@, [alg |-> alg, params |-> params])]
    /\ Goto(r, label)

\* feedback.isCanceled() read before stage k
Poll(r, k) == polls' = [polls EXCEPT ![r] = Append(@, k)]

\* ------------------------------------------------------------------
\* processAlgorithm, lines 116-139: validation and temporary names
\* ------------------------------------------------------------------
\* uuid.uuid4(): a value no earlier call returned
uuid4 == UIDs \ Range(uid)

\* Begin without the test of line 122: None.bandCount() raises AttributeError
Begin_NoneUnchecked(r) ==
    /\ pc[r] = "idle"
    /\ LET raster_layer == parameterAsRasterLayer(parameters[r]) IN
        IF raster_layer = None
        THEN Raise(r, "AttributeError") /\ uid' = uid
        ELSE IF ~SingleBand(raster_layer)
        THEN Raise(r, ErrBandCount) /\ uid' = uid
        ELSE \E u \in uuid4 : uid' = Put(uid, r, u) /\ Goto(r, "check1")
    /\ UNCHANGED <<outside, parameters, isCanceled, fs, calls, completed, polls, fsops>>

Begin(r) ==
    /\ pc[r] = "idle"
    /\ LET raster_layer == parameterAsRasterLayer(parameters[r]) IN
        IF raster_layer = None
        THEN Raise(r, ErrInvalidInput) /\ uid' = uid
        ELSE IF ~SingleBand(raster_layer)
        THEN Raise(r, ErrBandCount) /\ uid' = uid
        ELSE \E u \in uuid4 : uid' = Put(uid, r, u) /\ Goto(r, "check1")
    /\ UNCHANGED <<outside, parameters, isCanceled, fs, calls, completed, polls, fsops>>

\* ------------------------------------------------------------------
\* The four stages: each reads the cancellation flag, then enters its
\* processing.run call
\* ------------------------------------------------------------------
\* the call in flight of run r
current(r) == calls[r][Len(calls[r])]

\* parameters of rvt:rvt_opns, lines 150-159 and 173-182
OpnsParams(raster, type, output) ==
    [INPUT |-> raster, VE_FACTOR |-> VE_FACTOR, RADIUS |-> RADIUS,
     NUM_DIRECTIONS |-> NUM_DIRECTIONS, NOISE_REMOVE |-> NOISE_REMOVE,
     OPNS_TYPE |-> type, SAVE_AS_8BIT |-> SAVE_AS_8BIT, OUTPUT |-> output]

\* QgsRasterLayer(path, name)
QgsRasterLayer(path, name) == [source |-> path, name |-> name]

\* layer.isValid()
isValid(layer) == fs[layer.source].state = "valid"

\* os.path.exists(path)
exists(path) == fs[path].state # "absent"

\* stage 1 issuing the negative openness
Step1_NegativeFirst(r) ==
    /\ pc[r] = "check1"
    /\ Poll(r, 1)
    /\ IF isCanceled[r]
       THEN Return(r, EmptyResult) /\ calls' = calls
       ELSE Invoke(r, "rvt:rvt_opns",
                   OpnsParams(parameters[r].INPUT_RASTER, OPNS_NEGATIVE, on_path(uid[r])),
                   "run1")
    /\ UNCHANGED <<outside, parameters, uid, isCanceled, fs, completed, fsops>>

\* stage 1 without the test of lines 144-145
Step1_Unchecked(r) ==
    /\ pc[r] = "check1"
    /\ Invoke(r, "rvt:rvt_opns",
              OpnsParams(parameters[r].INPUT_RASTER, OPNS_POSITIVE, op_path(uid[r])),
              "run1")
    /\ UNCHANGED <<outside, parameters, uid, isCanceled, fs, completed, polls, fsops>>

\* STEP 1 - Positive Openness, lines 144-162
Step1(r) ==
    /\ pc[r] = "check1"
    /\ Poll(r, 1)
    /\ IF isCanceled[r]
       THEN Return(r, EmptyResult) /\ calls' = calls
       ELSE Invoke(r, "rvt:rvt_opns",
                   OpnsParams(parameters[r].INPUT_RASTER, OPNS_POSITIVE, op_path(uid[r])),
                   "run1")
    /\ UNCHANGED <<outside, parameters, uid, isCanceled, fs, completed, fsops>>

\* STEP 2 - Negative Openness, lines 167-185
Step2(r) ==
    /\ pc[r] = "check2"
    /\ Poll(r, 2)
    /\ IF isCanceled[r]
       THEN Return(r, EmptyResult) /\ calls' = calls
       ELSE Invoke(r, "rvt:rvt_opns",
                   OpnsParams(parameters[r].INPUT_RASTER, OPNS_NEGATIVE, on_path(uid[r])),
                   "run2")
    /\ UNCHANGED <<outside, parameters, uid, isCanceled, fs, completed, fsops>>

\* the test of line 198 written with "and": raise only when both fail to load
LoadAndRunRasterCalc_BothInvalid(r) ==
    LET op_layer == QgsRasterLayer(op_path(uid[r]), "POS")
        on_layer == QgsRasterLayer(on_path(uid[r]), "NEG")
    IN  /\ fsops' = [fsops EXCEPT ![r] =
                        @ \cup {<<"read", op_layer.source>>, <<"read", on_layer.source>>}]
        /\ IF ~isValid(op_layer) /\ ~isValid(on_layer)
           THEN Raise(r, ErrIntermediate) /\ calls' = calls
           ELSE Invoke(r, "native:rastercalc",
                       [LAYERS |-> <<op_layer, on_layer>>,
                        EXPRESSION |-> EXPRESSION,
                        OUTPUT |-> parameters[r].OUT_DIFF],
                       "run3")
        /\ fs' = fs

\* lines 195-212 without the test of lines 198-201
LoadAndRunRasterCalc_Unchecked(r) ==
    LET op_layer == QgsRasterLayer(op_path(uid[r]), "POS")
        on_layer == QgsRasterLayer(on_path(uid[r]), "NEG")
    IN  /\ fsops' = [fsops EXCEPT ![r] =
                        @ \cup {<<"read", op_layer.source>>, <<"read", on_layer.source>>}]
        /\ Invoke(r, "native:rastercalc",
                  [LAYERS |-> <<op_layer, on_layer>>,
                   EXPRESSION |-> EXPRESSION,
                   OUTPUT |-> parameters[r].OUT_DIFF],
                  "run3")
        /\ fs' = fs

\* lines 193-212: load the two intermediate layers, enter native:rastercalc
LoadAndRunRasterCalc(r) ==
    LET op_layer == QgsRasterLayer(op_path(uid[r]), "POS")
        on_layer == QgsRasterLayer(on_path(uid[r]), "NEG")
    IN  /\ fsops' = [fsops EXCEPT ![r] =
                        @ \cup {<<"read", op_layer.source>>, <<"read", on_layer.source>>}]
        /\ IF ~isValid(op_layer) \/ ~isValid(on_layer)
           THEN Raise(r, ErrIntermediate) /\ calls' = calls
           ELSE Invoke(r, "native:rastercalc",
                       [LAYERS |-> <<op_layer, on_layer>>,
                        EXPRESSION |-> EXPRESSION,
                        OUTPUT |-> parameters[r].OUT_DIFF],
                       "run3")
        /\ fs' = fs

\* stage 3 deleting the intermediate files when it finds the run cancelled
Step3_CleanupOnCancel(r) ==
    /\ pc[r] = "check3"
    /\ Poll(r, 3)
    /\ IF isCanceled[r]
       THEN /\ Return(r, EmptyResult)
            /\ calls' = calls
            /\ fs' = [p \in Paths |->
                        IF p \in {op_path(uid[r]), on_path(uid[r])}
                        THEN NoFile ELSE fs[p]]
            /\ fsops' = [fsops EXCEPT ![r] = @ \cup {<<"remove", op_path(uid[r])>>,
                                                      <<"remove", on_path(uid[r])>>}]
       ELSE LoadAndRunRasterCalc(r)
    /\ UNCHANGED <<outside, parameters, uid, isCanceled, completed>>

\* STEP 3 - Differential Openness, lines 190-212
Step3(r) ==
    /\ pc[r] = "check3"
    /\ Poll(r, 3)
    /\ IF isCanceled[r]
       THEN Return(r, EmptyResult) /\ UNCHANGED <<calls, fs, fsops>>
       ELSE LoadAndRunRasterCalc(r)
    /\ UNCHANGED <<outside, parameters, uid, isCanceled, completed>>

\* stage 4 taking the slope of the differential openness
Step4_SlopeOfDiff(r) ==
    /\ pc[r] = "check4"
    /\ Poll(r, 4)
    /\ IF isCanceled[r]
       THEN Return(r, EmptyResult) /\ calls' = calls
       ELSE Invoke(r, "native:slope",
                   [INPUT |-> parameters[r].OUT_DIFF, Z_FACTOR |-> Z_FACTOR,
                    OUTPUT |-> parameters[r].OUT_SLOPE],
                   "run4")
    /\ UNCHANGED <<outside, parameters, uid, isCanceled, fs, completed, fsops>>

\* stage 4 deleting the intermediate files when it finds the run cancelled
Step4_CleanupOnCancel(r) ==
    /\ pc[r] = "check4"
    /\ Poll(r, 4)
    /\ IF isCanceled[r]
       THEN /\ Return(r, EmptyResult)
            /\ calls' = calls
            /\ fs' = [p \in Paths |->
                        IF p \in {op_path(uid[r]), on_path(uid[r])}
                        THEN NoFile ELSE fs[p]]
            /\ fsops' = [fsops EXCEPT ![r] = @ \cup {<<"remove", op_path(uid[r])>>,
                                                      <<"remove", on_path(uid[r])>>}]
       ELSE /\ Invoke(r, "native:slope",
                      [INPUT |-> parameters[r].INPUT_RASTER, Z_FACTOR |-> Z_FACTOR,
                       OUTPUT |-> parameters[r].OUT_SLOPE],
                      "run4")
            /\ UNCHANGED <<fs, fsops>>
    /\ UNCHANGED <<outside, parameters, uid, isCanceled, completed>>

\* STEP 4 - Slope, lines 219-232
Step4(r) ==
    /\ pc[r] = "check4"
    /\ Poll(r, 4)
    /\ IF isCanceled[r]
       THEN Return(r, EmptyResult) /\ calls' = calls
       ELSE Invoke(r, "native:slope",
                   [INPUT |-> parameters[r].INPUT_RASTER, Z_FACTOR |-> Z_FACTOR,
                    OUTPUT |-> parameters[r].OUT_SLOPE],
                   "run4")
    /\ UNCHANGED <<outside, parameters, uid, isCanceled, fs, completed, fsops>>

\* ------------------------------------------------------------------
\* Return of the external primitives
\* ------------------------------------------------------------------
\* the primitive in flight wrote a raster of the given state, with the given
\* value at the pixel, to its OUTPUT
Written(r, state, value) ==
    LET out == current(r).params.OUTPUT IN
        /\ fs' = [fs EXCEPT ![out] = File(state, value)]
        /\ fsops' = [fsops EXCEPT ![r] = @ \cup {<<"write", out>>}]

\* the call in flight is over
Completed(r) == completed' = [completed EXCEPT ![r] = @ + 1]

\* the exception of a failed primitive caught, and {} returned
PrimitiveRaised_Caught(r) ==
    /\ Return(r, EmptyResult)
    /\ UNCHANGED <<fs, fsops>>

\* the exception of a failed primitive leaves processAlgorithm as it is
PrimitiveRaised(r) ==
    /\ Raise(r, ErrPrimitive)
    /\ UNCHANGED <<fs, fsops>>

\* rvt:rvt_opns returns: it wrote its OUTPUT (loadable or not) or raised
rvt_opns(r) ==
    /\ pc[r] \in {"run1", "run2"}
    /\ Completed(r)
    /\ \/ \E state \in {"valid", "invalid"} :
            /\ Written(r, state, Rat(openness[current(r).params.OPNS_TYPE]))
            /\ Goto(r, IF pc[r] = "run1" THEN "check2" ELSE "check3")
       \/ PrimitiveRaised(r)
    /\ UNCHANGED <<outside, parameters, uid, isCanceled, calls, polls>>

\* the value of band 1 of the layer of that name, at the pixel
Band1(layers, name) ==
    fs[(CHOOSE l \in Range(layers) : l.name = name).source].pixel

\* the raster calculator's value of an expression over the layers
RECURSIVE Eval(_, _)
Eval(e, layers) ==
    CASE e.op = "num" -> Rat(e.value)
      [] e.op = "ref" -> Band1(layers, e.name)
      [] e.op = "-" -> RatMinus(Eval(e.left, layers), Eval(e.right, layers))
      [] e.op = "/" -> RatOver(Eval(e.left, layers), Eval(e.right, layers))

\* native:rastercalc returns: it wrote the value of its EXPRESSION over its
\* LAYERS to its OUTPUT, or raised
rastercalc(r) ==
    /\ pc[r] = "run3"
    /\ Completed(r)
    /\ \/ /\ Written(r, "valid",
                  Eval(current(r).params.EXPRESSION, current(r).params.LAYERS))
          /\ Goto(r, "check4")
       \/ PrimitiveRaised(r)
    /\ UNCHANGED <<outside, parameters, uid, isCanceled, calls, polls>>

\* native:slope returns: it wrote its OUTPUT (whose values no property
\* follows) or raised
slope(r) ==
    /\ pc[r] = "run4"
    /\ Completed(r)
    /\ \/ Written(r, "valid", Rat(0)) /\ Goto(r, "rm_pos")
       \/ PrimitiveRaised(r)
    /\ UNCHANGED <<outside, parameters, uid, isCanceled, calls, polls>>

\* ------------------------------------------------------------------
\* CLEANUP, lines 239-253
\* ------------------------------------------------------------------
\* diff_result["OUTPUT"] and slope_result["OUTPUT"]: the OUTPUT given to the call
OutputOf(r, alg) ==
    (CHOOSE c \in Range(calls[r]) : c.alg = alg).params.OUTPUT

\* the dictionary of lines 250-253
TwoKeyResult(r) ==
    [OUT_SLOPE |-> OutputOf(r, "native:slope"),
     OUT_DIFF |-> OutputOf(r, "native:rastercalc")]

\* os.remove(path) deleted the file
Removed(r, path) ==
    /\ fs' = [fs EXCEPT ![path] = NoFile]
    /\ fsops' = [fsops EXCEPT ![r] = @ \cup {<<"remove", path>>}]

\* os.remove(path) raised and left the file
RemoveRaised(r, path) ==
    /\ fs' = fs
    /\ fsops' = [fsops EXCEPT ![r] = @ \cup {<<"remove", path>>, <<"remove raised", path>>}]

\* the removal of the positive file outside the try block
RemovePositive_Propagates(r) ==
    /\ pc[r] = "rm_pos"
    /\ LET path == op_path(uid[r]) IN
        IF exists(path)
        THEN \/ Removed(r, path) /\ Goto(r, "rm_neg")
             \/ RemoveRaised(r, path) /\ Raise(r, "OSError")
        ELSE Goto(r, "rm_neg") /\ UNCHANGED <<fs, fsops>>
    /\ UNCHANGED <<outside, parameters, uid, isCanceled, calls, completed, polls>>

\* each os.remove in a try block of its own
RemovePositive_OwnTry(r) ==
    /\ pc[r] = "rm_pos"
    /\ LET path == op_path(uid[r]) IN
        IF exists(path)
        THEN (Removed(r, path) \/ RemoveRaised(r, path)) /\ Goto(r, "rm_neg")
        ELSE Goto(r, "rm_neg") /\ UNCHANGED <<fs, fsops>>
    /\ UNCHANGED <<outside, parameters, uid, isCanceled, calls, completed, polls>>

\* lines 243-244; an exception of os.remove goes to "except Exception: pass"
RemovePositive(r) ==
    /\ pc[r] = "rm_pos"
    /\ LET path == op_path(uid[r]) IN
        IF exists(path)
        THEN \/ Removed(r, path) /\ Goto(r, "rm_neg")
             \/ RemoveRaised(r, path) /\ Return(r, TwoKeyResult(r))
        ELSE Goto(r, "rm_neg") /\ UNCHANGED <<fs, fsops>>
    /\ UNCHANGED <<outside, parameters, uid, isCanceled, calls, completed, polls>>

\* the cleanup without lines 245-246
RemoveNegative_Skipped(r) ==
    /\ pc[r] = "rm_neg"
    /\ Return(r, TwoKeyResult(r))
    /\ UNCHANGED <<outside, parameters, uid, isCanceled, fs, fsops, calls, completed, polls>>

\* lines 245-253
RemoveNegative(r) ==
    /\ pc[r] = "rm_neg"
    /\ LET path == on_path(uid[r]) IN
        IF exists(path)
        THEN Removed(r, path) \/ RemoveRaised(r, path)
        ELSE UNCHANGED <<fs, fsops>>
    /\ Return(r, TwoKeyResult(r))
    /\ UNCHANGED <<outside, parameters, uid, isCanceled, calls, completed, polls>>

\* ------------------------------------------------------------------
\* The caller
\* ------------------------------------------------------------------
\* feedback.cancel(): possible at any time before the run has ended
Cancel(r) ==
    /\ pc[r] \notin Terminal
    /\ ~isCanceled[r]
    /\ isCanceled' = [isCanceled EXCEPT ![r] = TRUE]
    /\ UNCHANGED <<outside, parameters, pc, uid, fs, calls, completed, polls, fsops, result, error>>

Next ==
    \E r \in Runs :
        \/ Begin(r)
        \/ Step1(r)
        \/ Step2(r)
        \/ Step3(r)
        \/ Step4(r)
        \/ rvt_opns(r)
        \/ rastercalc(r)
        \/ slope(r)
        \/ RemovePositive(r)
        \/ RemoveNegative(r)
        \/ Cancel(r)

Spec == Init /\ [][Next]_vars

\* One run at a time on a resolvable input, over every terrain: the other
\* runs are given an input that does not resolve.
InitArith ==
    \E ps \in {f \in [Runs -> ParamSets] :
                    Cardinality({r \in Runs : parameterAsRasterLayer(f[r]) # None}) <= 1} :
        \E o \in [OpnsTypes -> PixelValues] : InitWith(ps, o)

SpecArith == InitArith /\ [][Next]_vars

\* ------------------------------------------------------------------
\* Properties
\* ------------------------------------------------------------------
Ended(r) == pc[r] \in Terminal

\* the run returned the two-key dictionary
Succeeded(r) == pc[r] = "returned" /\ DOMAIN result[r] = {"OUT_SLOPE", "OUT_DIFF"}

\* the run returned {}
ReturnedEmpty(r) == pc[r] = "returned" /\ DOMAIN result[r] = {}

\* the run raised one of the two invalid-input errors
RaisedInvalidInput(r) == pc[r] = "raised" /\ error[r] \in {ErrInvalidInput, ErrBandCount}

\* paths on which run r performed operation op
PathsOf(r, op) == {o[2] : o \in {x \in fsops[r] : x[1] = op}}

\* the two intermediate files of a run that has drawn its uid
Intermediates(r) == {op_path(uid[r]), on_path(uid[r])}

DestsExist(r) == exists(parameters[r].OUT_SLOPE) /\ exists(parameters[r].OUT_DIFF)

C2_TornDownOnEveryExit ==
    \A r \in Runs :
        (/\ Ended(r)
         /\ r \in DOMAIN uid
         /\ Intermediates(r) \subseteq PathsOf(r, "write")
         /\ Succeeded(r) \/ (pc[r] = "raised" /\ error[r] = ErrIntermediate))
        => \A p \in Intermediates(r) : ~exists(p)

\* C3: a run on an input whose band count is not 1 ends with the invalid-input
\* error, having invoked no primitive, drawn no temporary name and touched no
\* file.
C3_BandCountGate ==
    \A r \in Runs :
        LET raster_layer == parameterAsRasterLayer(parameters[r]) IN
            (pc[r] # "idle" /\ raster_layer # None /\ bandCount(raster_layer) # 1) =>
                /\ RaisedInvalidInput(r)
                /\ calls[r] = << >>
                /\ fsops[r] = {}
                /\ r \notin DOMAIN uid

C3_Witness ==
    \E r \in Runs :
        /\ parameterAsRasterLayer(parameters[r]) # None
        /\ bandCount(parameterAsRasterLayer(parameters[r])) > 1
        /\ RaisedInvalidInput(r)
        /\ fsops[r] = {}

\* C4: a run on an input that does not resolve to a raster layer ends with
\* the invalid-input error, having invoked no primitive and touched no file.
C4_UnloadableInputGate ==
    \A r \in Runs :
        (pc[r] # "idle" /\ parameterAsRasterLayer(parameters[r]) = None) =>
            /\ RaisedInvalidInput(r)
            /\ calls[r] = << >>
            /\ fsops[r] = {}
            /\ r \notin DOMAIN uid

C4_Witness ==
    \E r \in Runs :
        /\ parameterAsRasterLayer(parameters[r]) = None
        /\ RaisedInvalidInput(r)
        /\ fsops[r] = {}

\* the stage a processing.run call belongs to
StageOf(c) ==
    IF c.alg = "rvt:rvt_opns"
    THEN (IF c.params.OPNS_TYPE = OPNS_POSITIVE THEN 1 ELSE 2)
    ELSE IF c.alg = "native:rastercalc" THEN 3 ELSE 4

\* C5: the calls of a run are stages 1, 2, 3, 4 in this order with none left
\* out, and a call is entered only when every earlier call is over: at most
\* one call is in flight, and it is the last one entered.
C5_StrictOrder ==
    \A r \in Runs :
        LET n == Len(calls[r]) IN
            /\ n <= 4
            /\ \A i \in 1..n : StageOf(calls[r][i]) = i
            /\ n - completed[r] = IF pc[r] \in InFlight THEN 1 ELSE 0

C5_Witness ==
    \E r \in Runs :
        /\ Len(calls[r]) = 4
        /\ completed[r] = 4
        /\ \A i \in 1..4 : StageOf(calls[r][i]) = i

\* C6, the state part: isCanceled is read once before each stage, in stage
\* order, and at no other place; a run that returned {} read it last,
\* entered no call after that and called os.remove on nothing.
C6_Polls ==
    \A r \in Runs :
        LET k == Len(polls[r])
            n == Len(calls[r])
        IN  /\ k <= 4
            /\ \A i \in 1..k : polls[r][i] = i
            /\ n <= k /\ k <= n + 1
            /\ pc[r] \in Checkpoints \cup InFlight => k = n
            /\ k = n + 1 =>
                    ReturnedEmpty(r) \/ (pc[r] = "raised" /\ error[r] = ErrIntermediate)
            /\ ReturnedEmpty(r) =>
                    /\ k = n + 1
                    /\ completed[r] = n
                    /\ PathsOf(r, "remove") = {}

\* C6, the step part: a run standing at a checkpoint with the flag set
\* returns {} in its next step, which enters no call and touches no file.
C6_Step ==
    \A r \in Runs :
        (pc[r] \in Checkpoints /\ isCanceled[r] /\ pc'[r] # pc[r]) =>
            /\ ReturnedEmpty(r)'
            /\ calls' = calls
            /\ fsops' = fsops
            /\ fs' = fs

C7_AsStated ==
    [][\A r \in Runs :
        (isCanceled[r] /\ pc[r] \in {"idle", "check1"} /\ pc'[r] # pc[r]) =>
            /\ fs' = fs /\ fsops'[r] = {} /\ calls'[r] = << >>
            /\ pc[r] = "idle" => pc'[r] = "check1" \/ ReturnedEmpty(r)'
            /\ pc[r] = "check1" => ReturnedEmpty(r)']_vars

\* C7, amended: a run whose cancellation signal is set before the first stage
\* writes no file and invokes no primitive; it returns {} when its input
\* passes validation and raises the invalid-input error when it does not.
C7_CancelBeforeStage1 ==
    [][\A r \in Runs :
        (isCanceled[r] /\ pc[r] \in {"idle", "check1"} /\ pc'[r] # pc[r]) =>
            LET raster_layer == parameterAsRasterLayer(parameters[r])
                valid == raster_layer # None /\ bandCount(raster_layer) = 1
            IN  /\ fs' = fs /\ fsops'[r] = {} /\ calls'[r] = << >>
                /\ pc[r] = "idle" =>
                        IF valid THEN pc'[r] = "check1" ELSE RaisedInvalidInput(r)'
                /\ pc[r] = "check1" => valid /\ ReturnedEmpty(r)']_vars

C7_Witness ==
    \E r \in Runs :
        /\ isCanceled[r]
        /\ ReturnedEmpty(r)
        /\ polls[r] = <<1>>
        /\ calls[r] = << >>
        /\ fsops[r] = {}

\* C8: the intermediate paths of different runs are different, the two paths
\* of one run are different, and no run writes, reads or removes an
\* intermediate file of another run.
C8_NoCollision ==
    \A r \in DOMAIN uid :
        /\ op_path(uid[r]) # on_path(uid[r])
        /\ \A q \in DOMAIN uid \ {r} :
            /\ Intermediates(r) \cap Intermediates(q) = {}
            /\ {o[2] : o \in fsops[q]} \cap Intermediates(r) = {}

C8_Witness ==
    \E r, q \in DOMAIN uid :
        /\ r # q
        /\ parameters[r] = parameters[q]
        /\ pc[r] = "run2" /\ pc[q] = "run2"
        /\ op_path(uid[r]) \in PathsOf(r, "write")
        /\ op_path(uid[q]) \in PathsOf(q, "write")

\* C9: when os.remove raises in the cleanup the run still returns the two-key
\* result, with the destinations the caller supplied.
C9_RemoveFailureSwallowed ==
    \A r \in Runs :
        PathsOf(r, "remove raised") # {} =>
            /\ Succeeded(r)
            /\ result[r] = [OUT_SLOPE |-> parameters[r].OUT_SLOPE,
                            OUT_DIFF |-> parameters[r].OUT_DIFF]

C9_Witness ==
    \E r \in Runs :
        /\ Succeeded(r)
        /\ op_path(uid[r]) \in PathsOf(r, "remove raised")
        /\ exists(on_path(uid[r]))

\* C10: a run returns {} or exactly the two keys pointing at the caller's
\* destinations, never an intermediate path, and no intermediate file of a
\* run is on disk once the run has ended.
C10_IntermediatesNeverExposed ==
    \A r \in Runs :
        /\ pc[r] = "returned" =>
            \/ ReturnedEmpty(r)
            \/ /\ Succeeded(r)
               /\ result[r].OUT_SLOPE = parameters[r].OUT_SLOPE
               /\ result[r].OUT_DIFF = parameters[r].OUT_DIFF
               /\ Range(result[r]) \cap TempPaths = {}
        /\ (Ended(r) /\ r \in DOMAIN uid) =>
            \A p \in Intermediates(r) : ~exists(p)

\* the rvt:rvt_opns call of run r with the given OPNS_TYPE
OpnsCall(r, type) ==
    CHOOSE c \in Range(calls[r]) : c.alg = "rvt:rvt_opns" /\ c.params.OPNS_TYPE = type

\* C11: the differential-openness output is (P - N) / 2 at the pixel, P being
\* what the openness call of type positive of the run wrote and N what its
\* call of type negative wrote.
C11_DifferentialOpenness ==
    \A r \in Runs :
        parameters[r].OUT_DIFF \in PathsOf(r, "write") =>
            LET P == openness[OPNS_POSITIVE]
                N == openness[OPNS_NEGATIVE]
            IN  /\ RatEq(fs[parameters[r].OUT_DIFF].pixel, <<P - N, 2>>)
                /\ pc[r] \in {"check4", "run4", "rm_pos"} =>
                    /\ fs[OpnsCall(r, OPNS_POSITIVE).params.OUTPUT].pixel = Rat(P)
                    /\ fs[OpnsCall(r, OPNS_NEGATIVE).params.OUTPUT].pixel = Rat(N)

C11_Witness ==
    \E r \in Runs :
        /\ parameters[r].OUT_DIFF \in PathsOf(r, "write")
        /\ openness[OPNS_POSITIVE] = 1
        /\ openness[OPNS_NEGATIVE] = 0
        /\ RatEq(fs[parameters[r].OUT_DIFF].pixel, <<1, 2>>)

\* run r went past the cancellation test of stage 3
PassedCheck3(r) ==
    Len(polls[r]) >= 3 /\ ~(ReturnedEmpty(r) /\ Len(polls[r]) = 3)

RaisedIntermediate(r) == pc[r] = "raised" /\ error[r] = ErrIntermediate

PrimitiveFailed(r) ==
    \E i \in 1..completed[r] : calls[r][i].params.OUTPUT \notin PathsOf(r, "write")

\* C13: no stage is invoked twice in a run, and when a primitive raises the
\* run ends with that exception, its last call being the one that raised, and
\* returns nothing.
C13_PrimitiveFailureAborts ==
    \A r \in Runs :
        /\ \A i, j \in 1..Len(calls[r]) :
                i # j => StageOf(calls[r][i]) # StageOf(calls[r][j])
        /\ PrimitiveFailed(r) =>
            /\ pc[r] = "raised"
            /\ error[r] = ErrPrimitive
            /\ completed[r] = Len(calls[r])
            /\ current(r).params.OUTPUT \notin PathsOf(r, "write")
            /\ r \notin DOMAIN result

C13_Witness ==
    \E r \in Runs :
        /\ PrimitiveFailed(r)
        /\ Len(calls[r]) = 3
        /\ pc[r] = "raised"

\* C14: the two openness calls get the run's input and the same fixed
\* parameters, and differ in OPNS_TYPE (positive, then negative) and OUTPUT
\* only; the slope call gets the run's input, not a file the run wrote, with
\* Z_FACTOR 1.
C14_CallParameters ==
    \A r \in Runs :
        LET n == Len(calls[r])
            fixed(ps) == <<ps.INPUT, ps.VE_FACTOR, ps.RADIUS, ps.NUM_DIRECTIONS,
                           ps.NOISE_REMOVE, ps.SAVE_AS_8BIT>>
        IN  /\ n >= 1 =>
                /\ fixed(calls[r][1].params) =
                        <<parameters[r].INPUT_RASTER, 1, 10, 16, 0, FALSE>>
                /\ calls[r][1].params.OPNS_TYPE = 0
                /\ calls[r][1].params.OUTPUT = op_path(uid[r])
            /\ n >= 2 =>
                /\ fixed(calls[r][2].params) = fixed(calls[r][1].params)
                /\ calls[r][2].params.OPNS_TYPE = 1
                /\ calls[r][2].params.OUTPUT = on_path(uid[r])
                /\ calls[r][2].params.OUTPUT # calls[r][1].params.OUTPUT
            /\ n >= 4 =>
                /\ calls[r][4].alg = "native:slope"
                /\ calls[r][4].params.INPUT = parameters[r].INPUT_RASTER
                /\ calls[r][4].params.INPUT \notin Paths
                /\ calls[r][4].params.Z_FACTOR = 1
                /\ calls[r][4].params.OUTPUT = parameters[r].OUT_SLOPE

C14_Witness ==
    \E r \in Runs :
        /\ Len(calls[r]) = 4
        /\ calls[r][1].params.OPNS_TYPE # calls[r][2].params.OPNS_TYPE
        /\ calls[r][4].params.INPUT = parameters[r].INPUT_RASTER

\* C15: a run has written the slope destination only if it has written the
\* differential-openness destination, and that only if it has written both
\* intermediate files and loaded both; a run that ended in stages 1-3 has
\* not written the slope destination.
C15_SlopeComesLast ==
    \A r \in Runs :
        /\ parameters[r].OUT_SLOPE \in PathsOf(r, "write") =>
                parameters[r].OUT_DIFF \in PathsOf(r, "write")
        /\ parameters[r].OUT_DIFF \in PathsOf(r, "write") =>
                /\ Intermediates(r) \subseteq PathsOf(r, "write")
                /\ Intermediates(r) \subseteq PathsOf(r, "read")
                /\ pc[r] \in {"check4", "run4", "rm_pos"} =>
                        \A p \in Intermediates(r) : fs[p].state = "valid"
        /\ (Ended(r) /\ Len(calls[r]) <= 3) =>
                parameters[r].OUT_SLOPE \notin PathsOf(r, "write")

C15_Witness ==
    \E r \in Runs :
        /\ pc[r] = "raised"
        /\ Len(calls[r]) = 3
        /\ Intermediates(r) \subseteq PathsOf(r, "read")
        /\ parameters[r].OUT_SLOPE \notin PathsOf(r, "write")

RRIMProvider == Cardinality({i \in 1..Len(entry_calls) :
                                entry_calls[i].method = "initGui"}) + 1

addProvider(p) == registry \cup {p}
removeProvider(p) == registry \ {p}

Entered(method, registry_call) ==
    entry_calls' = Append(entry_calls,
                          [method |-> method, registry_call |-> registry_call])

\* the run variables, which the entry point does not touch
run_vars == <<parameters, pc, uid, isCanceled, fs, openness, calls, completed,
              polls, fsops, result, error>>

\* lines 14-16
initGui ==
    /\ Len(entry_calls) < MaxCalls
    /\ provider' = Some(RRIMProvider)
    /\ registry' = addProvider(RRIMProvider)
    /\ Entered("initGui", Some(<<"addProvider", RRIMProvider>>))
    /\ UNCHANGED run_vars

\* lines 18-20
unload ==
    /\ Len(entry_calls) < MaxCalls
    /\ IF provider # None
       THEN /\ registry' = removeProvider(provider[1])
            /\ Entered("unload", Some(<<"removeProvider", provider[1]>>))
       ELSE /\ registry' = registry
            /\ Entered("unload", None)
    /\ provider' = provider
    /\ UNCHANGED run_vars

NextPlugin == initGui \/ unload

SpecPlugin == Init /\ [][NextPlugin]_vars

\* the positions of the initGui calls before call i
InitGuiBefore(i) == {j \in 1..(i - 1) : entry_calls[j].method = "initGui"}

\* the largest element of a non-empty set of numbers
Latest(S) == CHOOSE j \in S : \A k \in S : k <= j

\* an unload before any initGui makes no registry call
C18_UnloadFirst ==
    \A i \in 1..Len(entry_calls) :
        (entry_calls[i].method = "unload" /\ InitGuiBefore(i) = {}) =>
            entry_calls[i].registry_call = None

\* an unload after an initGui removes the instance the latest initGui added
C18_UnloadRemovesLatest ==
    \A i \in 1..Len(entry_calls) :
        (entry_calls[i].method = "unload" /\ InitGuiBefore(i) # {}) =>
            LET added == entry_calls[Latest(InitGuiBefore(i))].registry_call[1][2]
            IN  entry_calls[i].registry_call = Some(<<"removeProvider", added>>)

\* after a sequence of calls that ends with unload the registry holds no
\* provider of the plugin
C18_NothingRemains ==
    (entry_calls # << >> /\ entry_calls[Len(entry_calls)].method = "unload") =>
        registry = {}

\* C18: unload before any initGui makes no registry call; unload after
\* initGui removes the provider instance the most recent initGui added; and
\* after any sequence of initGui / unload calls ending with unload no
\* provider the plugin added is registered.
C18_ProviderLifecycle ==
    /\ C18_UnloadFirst
    /\ C18_UnloadRemovesLatest
    /\ C18_NothingRemains

====
